---- MODULE Spec2Model ----
(***************************************************************************)
(* Model of the DTU sentiment demo frontend (src/frontend/app.py): the     *)
(* in-memory Metrics object, score_to_label, call_external_service and the *)
(* three JSON endpoints api_score, api_batch and api_metrics; and of the   *)
(* sentiment service it calls (src/src/sentiment_analysis_api/main.py).    *)
(*                                                                         *)
(* Execution model.  api_score and api_batch are coroutines of the one     *)
(* asyncio event loop: each runs without interruption by another coroutine *)
(* from one await to the next, and the only await is the outbound POST.    *)
(* api_metrics is a plain def endpoint, which the framework runs on a      *)
(* worker thread, so its statements interleave with those of the           *)
(* coroutine that currently owns the event loop.                           *)
(***************************************************************************)
EXTENDS Integers, Sequences, FiniteSets, TLC

VARIABLES
    metrics,    \* the module-level Metrics() object
    dataset,    \* req.dataset of the batch request
    pc,         \* position of every request handler (task)
    frame,      \* the call_external_service frame of every task, and the label
                \* api_score computed from what the call returned
    loop,       \* the task that owns the event loop inside a synchronous stretch
    reply,      \* the JSONResponse every task answered with
    batch,      \* locals of api_batch: rows_out, latencies, correct, n, loop index
    snap,       \* locals of the Metrics.snapshot call running on the worker thread
    hist,       \* history: invocations and outbound POSTs (in all and per
                \* task), record calls (and the task, item and latency of each)
    clock,      \* percentile runs: the latencies the coming record calls are given
    service     \* the sentiment service: the class probabilities of the text it
                \* is asked about, and its response

vars == <<metrics, dataset, pc, frame, loop, reply, batch, snap, hist, clock, service>>

-----------------------------------------------------------------------------
(* Bounds of the model.                                                    *)

MaxItems == 2           \* longest dataset of a batch request
MaxLatency == 2         \* measured latencies are 1..MaxLatency (ms)
MaxScoreRequests == 1   \* api_score requests that arrive
ScoreUnit == 2          \* a score is a multiple of 1/ScoreUnit
MaxScore == 6           \* scores the service sends lie in -MaxScore..MaxScore
ExtraRecords == 1       \* percentile runs make P95MinCount + ExtraRecords records
ProbUnit == 12          \* a class probability is a multiple of 1/ProbUnit

-----------------------------------------------------------------------------
(* Optional values (None / a value) and floats.                            *)

None == <<>>
Some(x) == <<x>>

\* A Python float: a number v/ScoreUnit, or NaN (json.loads accepts the
\* literal NaN, and float("nan") converts).
Num(v) == [nan |-> FALSE, v |-> v]
NaN == [nan |-> TRUE, v |-> 0]
FromInt(k) == Num(k * ScoreUnit)

\* a <= b on floats: every comparison with NaN is false
FloatLE(a, b) == ~a.nan /\ ~b.nan /\ a.v <= b.v

Labels == {"positive", "neutral", "negative"}

score_to_label_strict(score) ==
    IF FloatLE(score, FromInt(-1)) /\ score # FromInt(-1) THEN "negative"
    ELSE IF FloatLE(FromInt(1), score) THEN "positive"
    ELSE "neutral"

score_to_label(score) ==
    IF FloatLE(score, FromInt(-1)) THEN "negative"
    ELSE IF FloatLE(FromInt(1), score) THEN "positive"
    ELSE "neutral"

-----------------------------------------------------------------------------
(* Metrics.                                                                *)

MetricsInit ==
    [total_requests |-> 0, success_requests |-> 0, failed_requests |-> 0,
     latencies_ms |-> <<>>, last_latency_ms |-> None]

\* The four statements of Metrics.record, in program order.
record_total(m) == [m EXCEPT !.total_requests = @ + 1]

record_outcome_success_only(m, ok) ==
    IF ok THEN [m EXCEPT !.success_requests = @ + 1] ELSE m

record_outcome(m, ok) ==
    IF ok THEN [m EXCEPT !.success_requests = @ + 1]
    ELSE [m EXCEPT !.failed_requests = @ + 1]

record_last(m, latency_ms) == [m EXCEPT !.last_latency_ms = Some(latency_ms)]

record_append_front(m, latency_ms) ==
    [m EXCEPT !.latencies_ms = <<latency_ms>> \o @]

record_append(m, latency_ms) ==
    [m EXCEPT !.latencies_ms = Append(@, latency_ms)]

RecordSteps == 4

record_step(m, k, ok, latency_ms) ==
    CASE k = 1 -> record_total(m)
      [] k = 2 -> record_outcome(m, ok)
      [] k = 3 -> record_last(m, latency_ms)
      [] k = 4 -> record_append(m, latency_ms)

\* Metrics.record run from its first statement to its last
record(m, ok, latency_ms) ==
    record_step(record_step(record_step(record_step(m, 1, ok, latency_ms),
                                        2, ok, latency_ms),
                            3, ok, latency_ms),
                4, ok, latency_ms)

RECURSIVE SumSeq(_)
SumSeq(s) == IF s = <<>> THEN 0 ELSE Head(s) + SumSeq(Tail(s))

\* statistics.mean: the exact mean, kept as the fraction num/den
Mean(xs) == [num |-> SumSeq(xs), den |-> Len(xs)]

\* sorted(xs), ascending
RECURSIVE Insert(_, _)
Insert(x, s) ==
    IF s = <<>> THEN <<x>>
    ELSE IF x <= Head(s) THEN <<x>> \o s
    ELSE <<Head(s)>> \o Insert(x, Tail(s))

RECURSIVE sorted(_)
sorted(xs) == IF xs = <<>> THEN <<>> ELSE Insert(Head(xs), sorted(Tail(xs)))

P95MinCount == 20

P95Index_of_len(len) == (19 * len) \div 20

\* int(0.95 * (len(xs) - 1)) in double arithmetic equals floor(19 * (len - 1) / 20)
\* for every length (0.95 * k rounds to the exact product whenever that is an integer)
P95Index(len) == (19 * (len - 1)) \div 20

snapshot_avg(latencies_ms) ==
    IF latencies_ms # <<>> THEN Some(Mean(latencies_ms)) ELSE None

snapshot_p95(latencies_ms) ==
    IF Len(latencies_ms) >= P95MinCount
    THEN Some(sorted(latencies_ms)[P95Index(Len(latencies_ms)) + 1])
    ELSE None

-----------------------------------------------------------------------------
(* What the outbound POST can bring back.                                  *)

\* data["score"] of a JSON object: whether it is a JSON number, whether
\* float() converts it, and the float it converts to.
Value(numeric, conv, f) == [numeric |-> numeric, conv |-> conv, f |-> f]

\* r.json(): json is "invalid" when the text is not JSON, else the kind of
\* JSON value; has_score is the truth of  "score" in data.
Body(json, has_score, value) ==
    [json |-> json, has_score |-> has_score, value |-> value]

NoValue == Value(FALSE, FALSE, NaN)

Response(status, body) == [kind |-> "response", status |-> status, body |-> body]

JSONResponse(status_code, content) == [status_code |-> status_code, content |-> content]

\* client.post raised: httpx.TimeoutException, another httpx.RequestError,
\* or any other Exception
Raised(kind) == [kind |-> kind]

ErrorText(kind, code) == [kind |-> kind, code |-> code]

Ret(score, latency_ms, error, warning) ==
    [score |-> score,
     info |-> [latency_ms |-> latency_ms, error |-> error, warning |-> warning]]

RecordCall(ok, latency_ms) == [ok |-> ok, latency_ms |-> latency_ms]

Returns(records, ret) == [records |-> records, raised |-> FALSE, ret |-> ret]
Raises(records) == [records |-> records, raised |-> TRUE]

InRange_open(score) ==
    FloatLE(FromInt(-5), score) /\ FloatLE(score, FromInt(5))
        /\ score # FromInt(-5) /\ score # FromInt(5)

\* line 283:  -5 <= score <= 5
InRange(score) == FloatLE(FromInt(-5), score) /\ FloatLE(score, FromInt(5))

status_is_error_2xx(r) == r.status < 200 \/ r.status > 299

status_is_error(r) == r.status # 200

\* lines 271-280:  "score" not in data  was true.  The record is made first;
\* building the message then calls data.keys(), which only a dict has.
missing_score(r, latency_ms) ==
    IF r.body.json = "object"
    THEN Returns(<<RecordCall(FALSE, latency_ms)>>,
                 Ret(None, latency_ms, Some(ErrorText("missing_score", None)), None))
    ELSE Raises(<<RecordCall(FALSE, latency_ms)>>)

\* lines 283-293
scored(score, latency_ms) ==
    IF ~InRange(score)
    THEN Returns(<<RecordCall(TRUE, latency_ms)>>,
                 Ret(Some(score), latency_ms, None, Some("out_of_range")))
    ELSE Returns(<<RecordCall(TRUE, latency_ms)>>,
                 Ret(Some(score), latency_ms, None, None))

\* lines 257-293: the try block after the POST returned r, with the latency
\* measured at line 257.  Gives the record calls made, in order, and the
\* value returned or the fact that an exception left the block.
try_body(r, latency_ms) ==
    IF status_is_error(r)
    THEN Returns(<<RecordCall(FALSE, latency_ms)>>,
                 Ret(None, latency_ms,
                     Some(ErrorText("http_status", Some(r.status))), None))
    ELSE IF r.body.json = "invalid" THEN Raises(<<>>)        \* r.json()
    ELSE IF r.body.json = "scalar" THEN Raises(<<>>)         \* "score" in 5
    ELSE IF ~r.body.has_score THEN missing_score(r, latency_ms)
    ELSE IF r.body.json # "object" THEN Raises(<<>>)         \* data["score"]
    ELSE IF ~r.body.value.conv THEN Raises(<<>>)             \* float(...)
    ELSE scored(r.body.value.f, latency_ms)

except_clause_records_success(kind, latency_ms) ==
    [records |-> <<RecordCall(TRUE, latency_ms)>>,
     ret |-> Ret(None, latency_ms, Some(ErrorText(kind, None)), None)]

except_clause_without_error(kind, latency_ms) ==
    [records |-> <<RecordCall(FALSE, latency_ms)>>,
     ret |-> Ret(None, latency_ms, None, None)]

\* lines 295-329: the three except clauses, each measuring the latency anew
except_clause(kind, latency_ms) ==
    [records |-> <<RecordCall(FALSE, latency_ms)>>,
     ret |-> Ret(None, latency_ms, Some(ErrorText(kind, None)), None)]

\* call_external_service from the moment the POST ends: post is what it
\* brought, t_try the latency measured at line 257, t_except the latency an
\* except clause measures.  Gives the record calls in order and the pair
\* (score, info) returned.
call_external_service(post, t_try, t_except) ==
    IF post.kind = "response"
    THEN LET b == try_body(post, t_try)
             h == except_clause("unexpected", t_except)
         IN  IF b.raised
             THEN [records |-> b.records \o h.records, ret |-> h.ret]
             ELSE [records |-> b.records, ret |-> b.ret]
    ELSE IF post.kind = "timeout" THEN except_clause("timeout", t_except)
    ELSE IF post.kind = "network" THEN except_clause("network", t_except)
    ELSE except_clause("unexpected", t_except)

-----------------------------------------------------------------------------
(* Inputs.                                                                 *)

Latencies == 1..MaxLatency

\* every float the service can send: -MaxScore .. MaxScore in steps of
\* 1/ScoreUnit, and NaN
Scores == {Num(v) : v \in (-MaxScore * ScoreUnit)..(MaxScore * ScoreUnit)} \cup {NaN}

Statuses == {200, 201, 204, 404, 500}

Values ==
    {Value(TRUE, TRUE, f) : f \in Scores}       \* a JSON number
    \cup {Value(TRUE, FALSE, NaN)}              \* an integer beyond the double range
    \cup {Value(FALSE, TRUE, FromInt(2))}       \* a numeric string such as "2.0"
    \cup {Value(FALSE, FALSE, NaN)}             \* null, "abc"

Bodies ==
    {Body("object", TRUE, v) : v \in Values}
    \cup {Body("object", FALSE, NoValue),       \* {}  {"detail": ...}
          Body("list", FALSE, NoValue),         \* []
          Body("list", TRUE, NoValue),          \* ["score"]
          Body("string", FALSE, NoValue),       \* "ok"
          Body("string", TRUE, NoValue),        \* "score"
          Body("scalar", FALSE, NoValue),       \* 5  null  true
          Body("invalid", FALSE, NoValue)}      \* not JSON

Failures == {Raised("timeout"), Raised("network"), Raised("error")}

\* everything one POST can bring
Posts == {Response(st, b) : st \in Statuses, b \in Bodies} \cup Failures

\* the service of the batch runs: three scores (one per label), NaN, a body
\* that is a list, an error status, a timeout
BatchPosts ==
    {Response(200, Body("object", TRUE, Value(TRUE, TRUE, FromInt(k)))) :
        k \in {-1, 0, 2}}
    \cup {Response(200, Body("object", TRUE, Value(TRUE, TRUE, NaN))),
          Response(200, Body("list", FALSE, NoValue)),
          Response(500, Body("invalid", FALSE, NoValue)),
          Raised("timeout")}

\* what the end of one POST hands to call_external_service: what the POST
\* brought, the latency measured at line 257, and the latency an except
\* clause measures later
Deliveries(posts) ==
    {d \in [post : posts, t_try : Latencies, t_except : Latencies] :
        d.t_try <= d.t_except}

\* the service of the concurrent runs: a quick score or a slow timeout
FewDeliveries ==
    {[post |-> Response(200, Body("object", TRUE, Value(TRUE, TRUE, FromInt(2)))),
      t_try |-> 1, t_except |-> 1],
     [post |-> Raised("timeout"), t_try |-> MaxLatency, t_except |-> MaxLatency]}

\* an item of List[List[str]]: a pair with a known gold label, a pair with
\* an unknown one, a list that is no pair
Items == {<<"t1", "positive">>, <<"t2", "negative">>, <<"t1", "good">>, <<"t2">>}

RECURSIVE SeqsUpTo(_, _)
SeqsUpTo(S, len) ==
    IF len = 0 THEN {<<>>}
    ELSE LET shorter == SeqsUpTo(S, len - 1)
         IN  shorter \cup {Append(q, x) : q \in {r \in shorter : Len(r) = len - 1}, x \in S}

Datasets == SeqsUpTo(Items, MaxItems)

FewDatasets == SeqsUpTo({<<"t1", "positive">>}, MaxItems)

-----------------------------------------------------------------------------
(* The sentiment service (src/src/sentiment_analysis_api/main.py).         *)

\* The softmax output for a text (lines 40-47): probs[0] positive, probs[1]
\* neutral, probs[2] negative, here as multiples of 1/ProbUnit that sum to
\* 1; a probability can be 0 or 1 where exp underflows.
ProbVectors ==
    {p \in [1..3 -> 0..ProbUnit] : p[1] + p[2] + p[3] = ProbUnit}

\* line 51: np.argmax, the first index holding the maximum (0-based)
argmax(probs) ==
    IF probs[1] >= probs[2] /\ probs[1] >= probs[3] THEN 0
    ELSE IF probs[2] >= probs[3] THEN 1
    ELSE 2

\* a number as a fraction
Frac(num, den) == [num |-> num, den |-> den]

Min(a, b) == IF a <= b THEN a ELSE b
Max(a, b) == IF a >= b THEN a ELSE b

\* line 71:  max(-5, min(5, final_score)),  on a numerator over ProbUnit
clamp(num) == Max(-5 * ProbUnit, Min(5 * ProbUnit, num))

\* lines 53-73: the score for a probability vector, as a fraction
final_score(probs) ==
    LET winner_index == argmax(probs)
        prob_pos == probs[1]
        prob_neg == probs[3]
        raw == IF winner_index = 0 THEN 3 * ProbUnit + prob_pos * 2
               ELSE IF winner_index = 2 THEN -3 * ProbUnit - prob_neg * 2
               ELSE prob_pos - prob_neg
    IN  Frac(clamp(raw), ProbUnit)

NoRequest == [pc |-> "idle", probs |-> [i \in 1..3 |-> 0], response |-> None]

\* POST /v1/sentiment: the handler returns a dict, which the framework
\* answers with status 200
analyze_sentiment ==
    /\ service.pc = "asked"
    /\ service' = [service EXCEPT
                      !.pc = "answered",
                      !.response = Some(JSONResponse(200, [score |-> final_score(service.probs)]))]
    /\ UNCHANGED <<metrics, dataset, pc, frame, loop, reply, batch, snap, hist, clock>>

-----------------------------------------------------------------------------
(* Tasks: the api_batch request and the api_score requests.                *)

BatchTask == 0
ScoreTasks == 1..MaxScoreRequests
Tasks == {BatchTask} \cup ScoreTasks

\* A call_external_service frame: post is what the POST brought, records
\* the metrics.record calls still to make (k the next statement of the
\* first), ret the pair (score, info) the call returns, label the local of
\* api_score (line 787).
NoFrame == [post |-> Raised("none"), records |-> <<>>, k |-> 1,
            ret |-> Ret(None, 0, None, None), label |-> None]

BatchLocals(i, rows_out, latencies, correct, n) ==
    [i |-> i, rows_out |-> rows_out, latencies |-> latencies,
     correct |-> correct, n |-> n]

\* pc is the number of statements of the running snapshot already executed;
\* at SnapshotSteps the call has returned and the fields are its result
SnapIdle ==
    [pc |-> 0, avg_latency_ms |-> None, p95_latency_ms |-> None, total_requests |-> 0,
     success_requests |-> 0, failed_requests |-> 0, last_latency_ms |-> None]

NoHistory ==
    [invocations |-> 0, returned |-> 0, failures |-> 0, posts |-> 0,
     records |-> 0, owners |-> <<>>,
     started |-> [t \in Tasks |-> 0], ended |-> [t \in Tasks |-> 0],
     posted |-> [t \in Tasks |-> 0]]

InitWith(ds, feed) ==
    /\ service = NoRequest
    /\ clock = feed
    /\ metrics = MetricsInit
    /\ dataset = ds
    /\ pc = [t \in Tasks |-> "idle"]
    /\ frame = [t \in Tasks |-> NoFrame]
    /\ loop = None
    /\ reply = [t \in Tasks |-> None]
    /\ batch = BatchLocals(0, <<>>, <<>>, 0, 0)
    /\ snap = SnapIdle
    /\ hist = NoHistory

\* JSONResponse encodes its content as strict JSON when it is constructed:
\* a float that is not a number has no encoding, the constructor raises and
\* the framework answers the request with status 500.
json_compliant(f) == ~f.nan

ServerError == JSONResponse(500, [detail |-> "Internal Server Error"])

\* the history once task t has entered call_external_service and sent its
\* POST (lines 252-256)
Posted_with_retry(h, t) ==
    [h EXCEPT !.invocations = @ + 1, !.started[t] = @ + 1,
              !.posts = @ + 2, !.posted[t] = @ + 2]

Posted(h, t) ==
    [h EXCEPT !.invocations = @ + 1, !.started[t] = @ + 1,
              !.posts = @ + 1, !.posted[t] = @ + 1]

\* lines 252-256: the invocation up to the await of the POST
Invoke(t) ==
    /\ pc' = [pc EXCEPT ![t] = "awaiting"]
    /\ hist' = Posted(hist, t)

\* The POST of task t ends and call_external_service runs on, up to its first
\* metrics.record call.
Receive(t, deliveries) ==
    /\ pc[t] = "awaiting"
    /\ loop = None
    /\ \E d \in deliveries :
          LET c == call_external_service(d.post, d.t_try, d.t_except)
          IN  frame' = [frame EXCEPT ![t] = [post |-> d.post, records |-> c.records,
                                             k |-> 1, ret |-> c.ret, label |-> None]]
    /\ pc' = [pc EXCEPT ![t] = "recording"]
    /\ loop' = Some(t)
    /\ UNCHANGED <<service, clock, metrics, dataset, reply, batch, snap, hist>>

\* who made a record call: the task, the item its loop is at (0 for a
\* single-item request) and the latency it recorded
Owner(t, latency_ms) ==
    [task |-> t, item |-> IF t = BatchTask THEN batch.i ELSE 0, latency_ms |-> latency_ms]

\* One statement of Metrics.record, run by the task that owns the event loop.
RecordStep(t) ==
    /\ pc[t] = "recording"
    /\ frame[t].records # <<>>
    /\ LET f == frame[t]
           r == Head(f.records)
       IN  /\ metrics' = record_step(metrics, f.k, r.ok, r.latency_ms)
           /\ IF f.k < RecordSteps
              THEN /\ frame' = [frame EXCEPT ![t].k = f.k + 1]
                   /\ hist' = hist
              ELSE /\ frame' = [frame EXCEPT ![t].k = 1, ![t].records = Tail(f.records)]
                   /\ hist' = [hist EXCEPT !.records = @ + 1,
                                            !.owners = Append(@, Owner(t, r.latency_ms))]
    /\ UNCHANGED <<service, clock, dataset, pc, loop, reply, batch, snap>>

\* call_external_service has made its record calls and returns
Returning_before_record(t) == pc[t] = "recording"

Returning(t) == pc[t] = "recording" /\ frame[t].records = <<>>

\* the history once the invocation of task t has returned ret
Returned(h, t, ret) ==
    [h EXCEPT !.returned = @ + 1, !.ended[t] = @ + 1,
              !.failures = @ + (IF ret.score = None THEN 1 ELSE 0)]

-----------------------------------------------------------------------------
(* api_score.                                                              *)

ScoreStart(t) ==
    /\ t \in ScoreTasks
    /\ pc[t] = "idle"
    /\ loop = None
    /\ Invoke(t)
    /\ UNCHANGED <<service, clock, metrics, dataset, frame, loop, reply, batch, snap>>

\* lines 783-795
score_reply(score, info) ==
    IF score = None
    THEN JSONResponse(502, [detail |-> info.error])
    ELSE IF ~json_compliant(score[1])
    THEN ServerError
    ELSE JSONResponse(200, [score |-> score[1],
                            label |-> score_to_label(score[1]),
                            latency_ms |-> info.latency_ms,
                            warning |-> info.warning])

ScoreReturn(t) ==
    /\ t \in ScoreTasks
    /\ Returning(t)
    /\ reply' = [reply EXCEPT ![t] = Some(score_reply(frame[t].ret.score, frame[t].ret.info))]
    /\ pc' = [pc EXCEPT ![t] = "done"]
    /\ loop' = None
    /\ frame' = [frame EXCEPT ![t].label =
                    IF frame[t].ret.score = None THEN None
                    ELSE Some(score_to_label(frame[t].ret.score[1]))]
    /\ hist' = Returned(hist, t, frame[t].ret)
    /\ UNCHANGED <<service, clock, metrics, dataset, batch, snap>>

-----------------------------------------------------------------------------
(* api_batch.                                                              *)

\* lines 814 and 821: the two checks made on an item when the loop reaches it
is_pair(item) == Len(item) = 2
gold_ok(item) == item[2] \in Labels

\* lines 833-843
failure_row(text, gold, latency_ms, info) ==
    [text |-> text, gold |-> gold, score |-> None, pred |-> None, ok |-> FALSE,
     latency_ms |-> latency_ms, error |-> info.error]

success_row_always_ok(text, gold, latency_ms, score) ==
    [text |-> text, gold |-> gold, score |-> Some(score),
     pred |-> Some(score_to_label(score)), ok |-> TRUE, latency_ms |-> latency_ms]

\* lines 847-860
success_row(text, gold, latency_ms, score) ==
    LET pred == score_to_label(score)
    IN  [text |-> text, gold |-> gold, score |-> Some(score), pred |-> Some(pred),
         ok |-> (pred = gold), latency_ms |-> latency_ms]

add_row_first(rows_out, row) == <<row>> \o rows_out

add_row(rows_out, row) == Append(rows_out, row)

after_call_skip_failed(b, item, score, info) ==
    LET latency_ms == info.latency_ms
    IN  IF score = None
        THEN BatchLocals(b.i, add_row(b.rows_out, failure_row(item[1], item[2], latency_ms, info)),
                         b.latencies, b.correct, b.n)
        ELSE LET row == success_row(item[1], item[2], latency_ms, score[1])
             IN  BatchLocals(b.i, add_row(b.rows_out, row), Append(b.latencies, latency_ms),
                             b.correct + (IF row.ok THEN 1 ELSE 0), b.n + 1)

\* lines 828-860: the body of the loop after call_external_service returned
\* (score, info) for item b.i
after_call(b, item, score, info) ==
    LET latency_ms == info.latency_ms
    IN  IF score = None
        THEN BatchLocals(b.i, add_row(b.rows_out, failure_row(item[1], item[2], latency_ms, info)),
                         Append(b.latencies, latency_ms), b.correct, b.n + 1)
        ELSE LET row == success_row(item[1], item[2], latency_ms, score[1])
             IN  BatchLocals(b.i, add_row(b.rows_out, row), Append(b.latencies, latency_ms),
                             b.correct + (IF row.ok THEN 1 ELSE 0), b.n + 1)

summary_accuracy_of_scored(b) ==
    LET scored_rows == Cardinality({i \in 1..Len(b.rows_out) : b.rows_out[i].score # None})
    IN  [n |-> b.n,
         correct |-> b.correct,
         accuracy |-> IF scored_rows # 0 THEN [num |-> b.correct, den |-> scored_rows]
                      ELSE [num |-> 0, den |-> 1],
         avg_latency_ms |-> IF b.latencies # <<>> THEN Mean(b.latencies)
                            ELSE [num |-> 0, den |-> 1],
         rows |-> b.rows_out]

\* lines 862-873
summary(b) ==
    [n |-> b.n,
     correct |-> b.correct,
     accuracy |-> IF b.n # 0 THEN [num |-> b.correct, den |-> b.n] ELSE [num |-> 0, den |-> 1],
     avg_latency_ms |-> IF b.latencies # <<>> THEN Mean(b.latencies) ELSE [num |-> 0, den |-> 1],
     rows |-> b.rows_out]

\* line 865: the response, built from the summary
batch_reply(b) ==
    IF \E i \in 1..Len(b.rows_out) :
          b.rows_out[i].score # None /\ ~json_compliant(b.rows_out[i].score[1])
    THEN ServerError
    ELSE JSONResponse(200, summary(b))

\* The for statement reaching item b.i (lines 813-827), or falling through
\* to lines 862-873 when no item is left.  h is the history so far.
BatchLoop(b, h) ==
    /\ batch' = b
    /\ IF b.i > Len(dataset)
       THEN /\ reply' = [reply EXCEPT ![BatchTask] = Some(batch_reply(b))]
            /\ pc' = [pc EXCEPT ![BatchTask] = "done"]
            /\ hist' = h
       ELSE IF ~is_pair(dataset[b.i])
       THEN /\ reply' = [reply EXCEPT ![BatchTask] = Some(JSONResponse(400, [detail |-> "not_a_pair"]))]
            /\ pc' = [pc EXCEPT ![BatchTask] = "done"]
            /\ hist' = h
       ELSE IF ~gold_ok(dataset[b.i])
       THEN /\ reply' = [reply EXCEPT ![BatchTask] = Some(JSONResponse(400, [detail |-> "gold_label"]))]
            /\ pc' = [pc EXCEPT ![BatchTask] = "done"]
            /\ hist' = h
       ELSE /\ reply' = reply
            /\ pc' = [pc EXCEPT ![BatchTask] = "awaiting"]
            /\ hist' = Posted(h, BatchTask)

\* the request arrives: lines 808-811 and the loop up to its first await
BatchStart ==
    /\ pc[BatchTask] = "idle"
    /\ loop = None
    /\ BatchLoop(BatchLocals(1, <<>>, <<>>, 0, 0), hist)
    /\ UNCHANGED <<service, clock, metrics, dataset, frame, loop, snap>>

\* call_external_service returns to the loop, which runs on to its next
\* await or to the end of the handler
BatchReturn ==
    /\ Returning(BatchTask)
    /\ LET b == after_call(batch, dataset[batch.i], frame[BatchTask].ret.score,
                           frame[BatchTask].ret.info)
       IN  BatchLoop([b EXCEPT !.i = @ + 1], Returned(hist, BatchTask, frame[BatchTask].ret))
    /\ loop' = None
    /\ UNCHANGED <<service, clock, metrics, dataset, frame, snap>>

-----------------------------------------------------------------------------
(* api_metrics: Metrics.snapshot on a worker thread, statement by          *)
(* statement (lines 142, 143-146, 148, 149, 150, 151).                     *)

SnapshotSteps == 6

snapshot_step(s, m) ==
    CASE s.pc \in {0, SnapshotSteps} ->
            [SnapIdle EXCEPT !.pc = 1, !.avg_latency_ms = snapshot_avg(m.latencies_ms)]
      [] s.pc = 1 -> [s EXCEPT !.pc = 2, !.p95_latency_ms = snapshot_p95(m.latencies_ms)]
      [] s.pc = 2 -> [s EXCEPT !.pc = 3, !.total_requests = m.total_requests]
      [] s.pc = 3 -> [s EXCEPT !.pc = 4, !.success_requests = m.success_requests]
      [] s.pc = 4 -> [s EXCEPT !.pc = 5, !.failed_requests = m.failed_requests]
      [] s.pc = 5 -> [s EXCEPT !.pc = 6, !.last_latency_ms = m.last_latency_ms]

RECURSIVE snapshot_run(_, _, _)
snapshot_run(s, m, steps) ==
    IF steps = 0 THEN s ELSE snapshot_run(snapshot_step(s, m), m, steps - 1)

\* Metrics.snapshot run from its first statement to its last on state m
snapshot(m) == snapshot_run(SnapIdle, m, SnapshotSteps)

SnapshotStep ==
    /\ snap' = snapshot_step(snap, metrics)
    /\ UNCHANGED <<service, clock, metrics, dataset, pc, frame, loop, reply, batch, hist>>

-----------------------------------------------------------------------------
(* Specifications.                                                         *)

\* Spec: one batch request, MaxScoreRequests single-item requests and the
\* metrics endpoint, all concurrent, against a service with few answers.
Init == \E ds \in FewDatasets : InitWith(ds, <<>>)

Next ==
    \/ \E t \in ScoreTasks : ScoreStart(t)
    \/ \E t \in Tasks : Receive(t, FewDeliveries)
    \/ \E t \in Tasks : RecordStep(t)
    \/ \E t \in ScoreTasks : ScoreReturn(t)
    \/ BatchStart
    \/ BatchReturn
    \/ SnapshotStep

Spec == Init /\ [][Next]_vars

\* SpecCall: one single-item request against a service that can answer
\* anything.
InitCall == InitWith(<<>>, <<>>)

Solo == {1}

NextCall ==
    \/ \E t \in Solo : ScoreStart(t)
    \/ \E t \in Solo : Receive(t, Deliveries(Posts))
    \/ \E t \in Solo : RecordStep(t)
    \/ \E t \in Solo : ScoreReturn(t)

SpecCall == InitCall /\ [][NextCall]_vars

\* SpecBatch: one batch request over any dataset.
InitBatch == \E ds \in Datasets : InitWith(ds, <<>>)

NextBatch ==
    \/ BatchStart
    \/ Receive(BatchTask, Deliveries(BatchPosts))
    \/ RecordStep(BatchTask)
    \/ BatchReturn

SpecBatch == InitBatch /\ [][NextBatch]_vars

\* SpecP95: Metrics.record and Metrics.snapshot called one after the other
\* (no concurrency), P95MinCount + ExtraRecords times, with latencies
\* start+1, start+stride+1, start+2*stride+1, ... taken modulo P95MinCount:
\* a permutation of 1..P95MinCount when the stride is coprime to it, and
\* repeated values otherwise.
Feed(start, stride) ==
    [i \in 1..(P95MinCount + ExtraRecords) |->
        ((start + (i - 1) * stride) % P95MinCount) + 1]

Feeds == {Feed(start, stride) : start \in 0..(P95MinCount - 1),
                                stride \in 0..(P95MinCount - 1)}

InitP95 == \E feed \in Feeds : InitWith(<<>>, feed)

\* one call of Metrics.record; the calls slower than half of P95MinCount
\* are the failed ones
DirectRecord ==
    /\ clock # <<>>
    /\ metrics' = record(metrics, 2 * Head(clock) <= P95MinCount, Head(clock))
    /\ clock' = Tail(clock)
    /\ hist' = [hist EXCEPT !.records = @ + 1]
    /\ UNCHANGED <<service, dataset, pc, frame, loop, reply, batch, snap>>

\* one call of Metrics.snapshot
DirectSnapshot ==
    /\ snap' = snapshot(metrics)
    /\ UNCHANGED <<service, metrics, dataset, pc, frame, loop, reply, batch, hist, clock>>

NextP95 == DirectRecord \/ DirectSnapshot

SpecP95 == InitP95 /\ [][NextP95]_vars

\* SpecService: the sentiment service is asked about one text, whose class
\* probabilities can be any vector.
InitService ==
    /\ \E p \in ProbVectors : service = [NoRequest EXCEPT !.pc = "asked", !.probs = p]
    /\ clock = <<>>
    /\ metrics = MetricsInit
    /\ dataset = <<>>
    /\ pc = [t \in Tasks |-> "idle"]
    /\ frame = [t \in Tasks |-> NoFrame]
    /\ loop = None
    /\ reply = [t \in Tasks |-> None]
    /\ batch = BatchLocals(0, <<>>, <<>>, 0, 0)
    /\ snap = SnapIdle
    /\ hist = NoHistory

NextService == analyze_sentiment

SpecService == InitService /\ [][NextService]_vars


-----------------------------------------------------------------------------
(* Properties.                                                             *)

\* comparisons of a float with an integer, as the claims read them
Lt(a, k) == ~a.nan /\ a.v < k * ScoreUnit
Le(a, k) == ~a.nan /\ a.v <= k * ScoreUnit
Gt(a, k) == ~a.nan /\ a.v > k * ScoreUnit
Ge(a, k) == ~a.nan /\ a.v >= k * ScoreUnit

Done(t) == pc[t] = "done"
Replied(t, status_code) == Done(t) /\ reply[t][1].status_code = status_code

\* no task is between the first and the last statement of a Metrics.record
NoRecordInProgress == \A t \in Tasks : pc[t] = "recording" => frame[t].k = 1

\* C1: every invocation of call_external_service calls metrics.record
\* exactly once before it returns, whatever the service did; so once the k
\* invocations made so far have all returned, total_requests is k.
C1_RecordedOncePerInvocation ==
    \A t \in ScoreTasks :
        Done(t) => /\ metrics.total_requests = hist.returned
                   /\ hist.records = hist.returned

\* C2: a dataset with a malformed item or an unknown gold label, at any
\* position, is answered with status 400 and causes no external call: no
\* invocation of call_external_service, and the metrics stay as they were.
InvalidItem(item) == Len(item) # 2 \/ item[2] \notin {"positive", "neutral", "negative"}
HasInvalidItem(ds) == \E i \in 1..Len(ds) : InvalidItem(ds[i])

C2_InvalidDatasetMakesNoCall ==
    HasInvalidItem(dataset) =>
        /\ hist.invocations = 0
        /\ metrics = MetricsInit
        /\ Done(BatchTask) => reply[BatchTask][1].status_code = 400


\* C3: after n calls of Metrics.record, made by single-item and batch
\* callers in any interleaving, total_requests = n and success_requests +
\* failed_requests = n, in every state where no record is in progress.
C3_CountersMatchRecordCalls ==
    NoRecordInProgress =>
        /\ metrics.total_requests = hist.records
        /\ metrics.success_requests + metrics.failed_requests = hist.records

\* C3 witness: the batch run and a single-item request have both recorded,
\* the single-item record falling between two records of the batch run, with
\* successes and failures among them.
C3_Witness ==
    /\ Done(BatchTask) /\ Len(dataset) = MaxItems
    /\ \A t \in ScoreTasks : Done(t)
    /\ hist.records = MaxItems + MaxScoreRequests
    /\ metrics.success_requests > 0 /\ metrics.failed_requests > 0
    /\ hist.owners[1].task = BatchTask /\ hist.owners[2].task # BatchTask
    /\ hist.owners[Len(hist.owners)].task = BatchTask

\* C4: every snapshot the metrics endpoint returns shows the state before
\* or after a record, never a partly applied one: its total_requests is
\* success_requests + failed_requests, and its average is taken over exactly
\* total_requests latencies (none when total_requests = 0).
C4_SnapshotIsConsistent ==
    snap.pc = SnapshotSteps =>
        /\ snap.total_requests = snap.success_requests + snap.failed_requests
        /\ snap.avg_latency_ms = None <=> snap.total_requests = 0
        /\ snap.avg_latency_ms # None => snap.avg_latency_ms[1].den = snap.total_requests
        /\ snap.last_latency_ms = None <=> snap.total_requests = 0

\* C5 (as claimed): for every score s that api_score labels, the label is
\* negative iff s <= -1, positive iff s >= 1 and neutral iff -1 < s < 1.
LabelIff(s, label) ==
    /\ label \in {"negative", "neutral", "positive"}
    /\ label = "negative" <=> Le(s, -1)
    /\ label = "positive" <=> Ge(s, 1)
    /\ label = "neutral" <=> (Gt(s, -1) /\ Lt(s, 1))

LabelOf(s, label) == IF s.nan THEN label = "neutral" ELSE LabelIff(s, label)

CountBelow(xs, v) == Cardinality({i \in 1..Len(xs) : xs[i] < v})
CountAtMost(xs, v) == Cardinality({i \in 1..Len(xs) : xs[i] <= v})

C6_P95OfFullHistory ==
    (snap.pc = SnapshotSteps /\ snap.total_requests = metrics.total_requests) =>
        LET xs == metrics.latencies_ms
            n == Len(xs)
            p == snap.p95_latency_ms
        IN  /\ n < 20 => p = None
            /\ n >= 20 =>
                /\ p # None
                /\ \E idx \in 0..(n - 1) :
                      /\ 20 * idx <= 19 * (n - 1)
                      /\ 19 * (n - 1) < 20 * (idx + 1)
                      /\ CountBelow(xs, p[1]) <= idx
                      /\ idx < CountAtMost(xs, p[1])
            /\ (n = 20 /\ {xs[i] : i \in 1..n} = 1..20) => p = Some(19)

\* C6 witness: a snapshot of the 20 latencies 1..20, recorded out of order
C6_Witness ==
    /\ snap.pc = SnapshotSteps
    /\ snap.total_requests = 20
    /\ Len(metrics.latencies_ms) = 20
    /\ {metrics.latencies_ms[i] : i \in 1..20} = 1..20
    /\ metrics.latencies_ms[1] > metrics.latencies_ms[2]
    /\ snap.p95_latency_ms = Some(19)


\* C7: the rows of a batch summary are in the order of the input items: as
\* many rows as items, and row i carries the text and the gold label of
\* item i, whatever the latency or the outcome of each call.
C7_RowsInInputOrder ==
    Replied(BatchTask, 200) =>
        LET rows == reply[BatchTask][1].content.rows
        IN  /\ Len(rows) = Len(dataset)
            /\ \A i \in 1..Len(rows) :
                  rows[i].text = dataset[i][1] /\ rows[i].gold = dataset[i][2]

\* C7 witness: a summary over two different items, the first failed and
\* slow, the second scored and quick
C7_Witness ==
    /\ Replied(BatchTask, 200)
    /\ Len(dataset) = 2 /\ dataset[1] # dataset[2]
    /\ LET rows == reply[BatchTask][1].content.rows
       IN  /\ rows[1].score = None /\ rows[2].score # None
           /\ rows[1].latency_ms > rows[2].latency_ms

\* C8: a batch run over a valid dataset never stops early on a failed call:
\* it ends only after one invocation per item, with every item (failed or
\* not) counted in n and in the rows; its summary averages the latency of
\* every item; when every call failed the run is answered with status 200,
\* correct = 0, accuracy = 0 and every row has score = null and an error.
\* (The only run over a valid dataset that is not answered with status 200
\* is one in which a call succeeded with a score that is not a number.)
RECURSIVE SumLatency(_)
SumLatency(rows) ==
    IF rows = <<>> THEN 0 ELSE Head(rows).latency_ms + SumLatency(Tail(rows))

C8_FailedCallsDoNotStopTheRun ==
    (~HasInvalidItem(dataset) /\ Done(BatchTask)) =>
        LET k == Len(dataset)
            status_code == reply[BatchTask][1].status_code
            c == reply[BatchTask][1].content
        IN  /\ hist.invocations = k /\ hist.returned = k
            /\ batch.n = k /\ Len(batch.rows_out) = k
            /\ status_code # 200 =>
                  \E i \in 1..k : /\ batch.rows_out[i].score # None
                                   /\ batch.rows_out[i].score[1].nan
            /\ status_code = 200 =>
                  /\ c.n = k /\ c.rows = batch.rows_out
                  /\ k > 0 => /\ c.avg_latency_ms.den = k
                              /\ c.avg_latency_ms.num = SumLatency(c.rows)
            /\ hist.failures = k =>
                  /\ status_code = 200
                  /\ c.correct = 0
                  /\ c.accuracy.num = 0
                  /\ \A i \in 1..k : /\ c.rows[i].score = None
                                     /\ "error" \in DOMAIN c.rows[i]
                                     /\ c.rows[i].error # None

\* C8 witness: a run over MaxItems items whose calls all failed, the first
\* of them by a timeout
C8_Witness ==
    /\ Replied(BatchTask, 200)
    /\ Len(dataset) = MaxItems
    /\ hist.failures = MaxItems
    /\ reply[BatchTask][1].content.n = MaxItems
    /\ reply[BatchTask][1].content.rows[1].error = Some(ErrorText("timeout", None))

\* C9: a row whose call succeeded has pred = the label of its score, ok =
\* (pred = gold) and no error; a row whose call failed has score = null,
\* pred = null, ok = false and the error text of the call.  The row added
\* last is compared with what the call just returned.
RowIsWellFormed(row) ==
    IF row.score # None
    THEN /\ row.pred # None
         /\ LabelOf(row.score[1], row.pred[1])
         /\ row.ok = (row.pred[1] = row.gold)
         /\ "error" \notin DOMAIN row
    ELSE /\ row.pred = None
         /\ row.ok = FALSE
         /\ "error" \in DOMAIN row /\ row.error # None

C9_RowsFollowTheCall ==
    /\ \A i \in 1..Len(batch.rows_out) : RowIsWellFormed(batch.rows_out[i])
    /\ (batch.rows_out # <<>> /\ pc[BatchTask] \in {"awaiting", "done"}) =>
          LET row == batch.rows_out[Len(batch.rows_out)]
              ret == frame[BatchTask].ret
          IN  /\ row.score = ret.score
              /\ row.latency_ms = ret.info.latency_ms
              /\ ret.score = None => row.error = ret.info.error

\* C9 witness: score 2.0 for an item with gold label positive gave pred =
\* positive and ok = true, after a row whose prediction was wrong
C9_Witness ==
    /\ Len(batch.rows_out) = 2
    /\ batch.rows_out[2].gold = "positive"
    /\ batch.rows_out[2].score = Some(FromInt(2))
    /\ batch.rows_out[2].pred = Some("positive")
    /\ batch.rows_out[2].ok
    /\ batch.rows_out[1].score # None /\ ~batch.rows_out[1].ok

\* C10 (as claimed): a response with a non-2xx status gives a failure whose
\* error names the status code, and a response with a 2xx status whose JSON
\* body has a numeric score field gives a success carrying that score,
\* recorded as a metrics success.  (Read in the claim's favour: a numeric
\* field is one that a float can hold.)
Is2xx(status) == 200 <= status /\ status <= 299

HttpFailure(t, status) ==
    /\ frame[t].ret.score = None
    /\ frame[t].ret.info.error = Some(ErrorText("http_status", Some(status)))
    /\ reply[t][1].status_code = 502
    /\ metrics.failed_requests = hist.failures

ScoredSuccess(t, f) ==
    /\ frame[t].ret.score = Some(f)
    /\ frame[t].ret.info.error = None
    /\ json_compliant(f) => (Replied(t, 200) /\ reply[t][1].content.score = f)
    /\ metrics.success_requests = hist.returned - hist.failures
    /\ metrics.failed_requests = hist.failures

C10_ByStatusClass ==
    \A t \in ScoreTasks :
        (Done(t) /\ loop = None /\ frame[t].post.kind = "response") =>
            LET r == frame[t].post
            IN  /\ ~Is2xx(r.status) => HttpFailure(t, r.status)
                /\ (Is2xx(r.status) /\ r.body.json = "object" /\ r.body.has_score
                      /\ r.body.value.numeric /\ r.body.value.conv)
                        => ScoredSuccess(t, r.body.value.f)

\* C10 (amended): a response whose status is not 200 (201 and 204 included)
\* gives a failure whose error names the status code, and a response with
\* status 200 whose JSON body is an object with a numeric score field that
\* float() converts gives a success carrying that score, recorded as a
\* metrics success.
C10_ByStatus200 ==
    \A t \in ScoreTasks :
        (Done(t) /\ loop = None /\ frame[t].post.kind = "response") =>
            LET r == frame[t].post
            IN  /\ r.status # 200 => HttpFailure(t, r.status)
                /\ (r.status = 200 /\ r.body.json = "object" /\ r.body.has_score
                      /\ r.body.value.numeric /\ r.body.value.conv)
                        => ScoredSuccess(t, r.body.value.f)

\* C10 witness: status 201 with a numeric score in the body was answered as
\* a failure naming 201
C10_Witness ==
    \E t \in ScoreTasks :
        /\ Done(t)
        /\ frame[t].post.kind = "response" /\ frame[t].post.status = 201
        /\ frame[t].post.body.has_score /\ frame[t].post.body.value.numeric
        /\ HttpFailure(t, 201)

\* C11: a 200 answer whose score lies outside [-5, 5] is returned as that
\* score, without an error and with a warning, and is recorded as a metrics
\* success (success_requests counts it, failed_requests does not); a returned
\* score carries a warning iff it is not within [-5, 5], so exactly -5 and
\* exactly 5 carry none.
Within(s, lo, hi) == Ge(s, lo) /\ Le(s, hi)

C11_OutOfRangeIsWarnedSuccess ==
    \A t \in ScoreTasks :
        Done(t) =>
            LET ret == frame[t].ret
                r == frame[t].post
            IN  /\ ret.score # None =>
                      (ret.info.warning # None <=> ~Within(ret.score[1], -5, 5))
                /\ ret.score \in {Some(FromInt(-5)), Some(FromInt(5))} =>
                      ret.info.warning = None
                /\ (/\ r.kind = "response" /\ r.status = 200
                    /\ r.body.json = "object" /\ r.body.has_score
                    /\ r.body.value.conv /\ ~Within(r.body.value.f, -5, 5)) =>
                      /\ ret.score = Some(r.body.value.f)
                      /\ ret.info.error = None
                      /\ ret.info.warning # None
                      /\ metrics.success_requests = hist.returned
                      /\ metrics.failed_requests = 0

\* C11 witness: the service answered 200 with the score 5.5, which came back
\* with a warning and counted as a success
C11_Witness ==
    \E t \in ScoreTasks :
        /\ Done(t)
        /\ frame[t].post.kind = "response"
        /\ frame[t].ret.score = Some(Num(5 * ScoreUnit + 1))
        /\ frame[t].ret.info.warning # None
        /\ metrics.success_requests = 1 /\ metrics.failed_requests = 0

\* C12: every outcome call_external_service returns has a score or an error
\* and never both: a score comes without an error, no score comes with an
\* error; a warning only comes with a score; and the outcome carries the
\* latency that was measured, which is not negative.
HasReturned(t) == Returning(t) \/ Done(t)

C12_ScoreXorError ==
    \A t \in ScoreTasks :
        HasReturned(t) =>
            LET ret == frame[t].ret
            IN  /\ (ret.score # None) # (ret.info.error # None)
                /\ ret.info.warning # None => ret.score # None
                /\ ret.info.latency_ms \in Latencies
                /\ ret.info.latency_ms >= 0

\* C12 witness: an answer the parsing failed on (no score, an error) has
\* returned after a timeout-free POST
C12_Witness ==
    \E t \in ScoreTasks :
        /\ Done(t)
        /\ frame[t].post.kind = "response" /\ frame[t].post.status = 200
        /\ frame[t].ret.score = None
        /\ frame[t].ret.info.error = Some(ErrorText("unexpected", None))
        /\ frame[t].ret.info.warning = None

\* C13: an exception of the POST or of the parsing never leaves
\* call_external_service: after a timeout, a network error, a body that is
\* not JSON, a score float() cannot convert, or any other exception, the
\* call returns no score and an error text (which api_score answers with
\* status 502), and the call is recorded as a failure: failed_requests has
\* grown, success_requests has not.
Unparsable(r) == r.kind = "response" /\ r.status = 200 /\ r.body.json = "invalid"

Unconvertible(r) ==
    /\ r.kind = "response" /\ r.status = 200
    /\ r.body.json = "object" /\ r.body.has_score /\ ~r.body.value.conv

OtherException(r) ==
    \/ r.kind = "error"
    \/ r.kind = "response" /\ r.status = 200 /\ r.body.json \in {"scalar", "list", "string"}

ErrorKind(r) ==
    IF r.kind \in {"timeout", "network"} THEN r.kind ELSE "unexpected"

C13_ExceptionsBecomeFailures ==
    \A t \in ScoreTasks :
        LET r == frame[t].post
        IN  (/\ Done(t)
             /\ \/ r.kind \in {"timeout", "network"}
                \/ Unparsable(r) \/ Unconvertible(r) \/ OtherException(r)) =>
                /\ frame[t].ret.score = None
                /\ frame[t].ret.info.error = Some(ErrorText(ErrorKind(r), None))
                /\ reply[t] = Some(JSONResponse(502, [detail |-> frame[t].ret.info.error]))
                /\ metrics.success_requests = 0
                /\ metrics.failed_requests >= 1
                /\ metrics.failed_requests = hist.records

\* C13 witness: the body held a score that float() cannot convert, and the
\* request was answered 502 after one failure was recorded
C13_Witness ==
    \E t \in ScoreTasks :
        /\ Replied(t, 502)
        /\ Unconvertible(frame[t].post)
        /\ frame[t].ret.info.error = Some(ErrorText("unexpected", None))
        /\ metrics.failed_requests = 1 /\ metrics.success_requests = 0

\* C14: in the summary of a successful batch run n is the number of input
\* items and of rows; correct is the number of rows with ok = true, between
\* 0 and n; accuracy is correct / n, and 0 when n = 0; avg_latency_ms is
\* the mean of the rows' latency_ms, and 0 when there is no row; an empty
\* dataset gives n = 0, accuracy = 0, avg_latency_ms = 0 and no external
\* call at all.
OkRows(rows) == Cardinality({i \in 1..Len(rows) : rows[i].ok})

IsZero(q) == q.num = 0 /\ q.den # 0

C14_SummaryArithmetic ==
    Replied(BatchTask, 200) =>
        LET c == reply[BatchTask][1].content
        IN  /\ c.n = Len(dataset) /\ c.n = Len(c.rows)
            /\ c.correct = OkRows(c.rows)
            /\ 0 <= c.correct /\ c.correct <= c.n
            /\ c.n > 0 => c.accuracy = [num |-> c.correct, den |-> c.n]
            /\ c.n = 0 => IsZero(c.accuracy)
            /\ c.rows # <<>> =>
                  c.avg_latency_ms = [num |-> SumLatency(c.rows), den |-> Len(c.rows)]
            /\ c.rows = <<>> => IsZero(c.avg_latency_ms)
            /\ dataset = <<>> =>
                  /\ c.n = 0 /\ IsZero(c.accuracy) /\ IsZero(c.avg_latency_ms)
                  /\ hist.invocations = 0 /\ hist.posts = 0
                  /\ metrics = MetricsInit

\* C14 witness: a summary over MaxItems items of which one call failed and
\* one gave the right label, with different latencies
C14_Witness ==
    /\ Replied(BatchTask, 200)
    /\ Len(dataset) = MaxItems
    /\ LET c == reply[BatchTask][1].content
       IN  /\ c.correct = 1 /\ c.n = MaxItems
           /\ \E i \in 1..c.n : c.rows[i].score = None
           /\ \E i, j \in 1..c.n : c.rows[i].latency_ms # c.rows[j].latency_ms

\* C15: the sentiment service answers POST /v1/sentiment with status 200
\* and a score of exactly 3 when the positive class has the highest
\* probability, and of exactly -3 when the negative class has it, for every
\* probability vector with that winner.
Answered == service.pc = "answered"

PositiveWins(p) == p[1] > p[2] /\ p[1] > p[3]
NegativeWins(p) == p[3] > p[1] /\ p[3] > p[2]

IsExactly(q, k) == q.num = k * q.den

C15_WinnerScoresExactlyThree ==
    Answered =>
        LET r == service.response[1]
        IN  /\ r.status_code = 200
            /\ PositiveWins(service.probs) => IsExactly(r.content.score, 3)
            /\ NegativeWins(service.probs) => IsExactly(r.content.score, -3)

\* C16: the calls of one batch run are sequential and in input order: at
\* most one of them is in flight at any moment; the call for an item starts
\* only after the calls for all items before it have returned and their
\* metrics records are in the latency log; and the records of the batch run
\* stand in the log in the order of their items, whatever other requests
\* record in between.
BatchRecords == SelectSeq(hist.owners, LAMBDA o : o.task = BatchTask)

InFlight(t) == hist.started[t] - hist.ended[t]

C16_BatchCallsAreSequential ==
    LET recs == BatchRecords
        started == hist.started[BatchTask]
    IN  /\ InFlight(BatchTask) \in {0, 1}
        /\ InFlight(BatchTask) = 1 <=> pc[BatchTask] \in {"awaiting", "recording"}
        /\ InFlight(BatchTask) = 1 => batch.i = started
        /\ \A j \in 1..(started - 1) : \E n \in 1..Len(recs) : recs[n].item = j
        /\ pc[BatchTask] = "awaiting" => \A n \in 1..Len(recs) : recs[n].item < started
        /\ \A n \in 1..Len(recs) : recs[n].item \in 1..started
        /\ \A m, n \in 1..Len(recs) : m < n => recs[m].item <= recs[n].item
        /\ \A n \in 1..Len(recs) :
              recs[n].item <= Len(batch.latencies) =>
                  recs[n].latency_ms = batch.latencies[recs[n].item]

\* C16 witness: a run over MaxItems items has ended; a single-item request
\* recorded between its first and its second record, and the records of the
\* run are those of item 1, item 2, ... in this order
C16_Witness ==
    /\ Done(BatchTask) /\ Len(dataset) = MaxItems
    /\ Len(BatchRecords) = MaxItems
    /\ \A n \in 1..MaxItems : BatchRecords[n].item = n
    /\ \E n \in 1..Len(hist.owners) :
          /\ hist.owners[n].task # BatchTask
          /\ \E m \in 1..(n - 1) : hist.owners[m].task = BatchTask
          /\ \E m \in (n + 1)..Len(hist.owners) : hist.owners[m].task = BatchTask

\* C17: there is no retry: every invocation of call_external_service issues
\* exactly one POST, whatever comes back; a batch run answered with a
\* summary has issued exactly one POST per item, failed items included, and
\* a single-item request that was answered has issued exactly one.
C17_OnePostPerInvocation ==
    /\ hist.posts = hist.invocations
    /\ \A t \in Tasks : hist.posted[t] = hist.started[t]
    /\ Replied(BatchTask, 200) =>
          /\ hist.posted[BatchTask] = Len(dataset)
          /\ hist.posted[BatchTask] = Len(reply[BatchTask][1].content.rows)
    /\ \A t \in ScoreTasks : Done(t) => hist.posted[t] = 1

\* C17 witness: a run over MaxItems items, one of them failed, has issued
\* MaxItems POSTs, and a single-item request that failed has issued one
C17_Witness ==
    /\ Replied(BatchTask, 200) /\ Len(dataset) = MaxItems
    /\ hist.posted[BatchTask] = MaxItems
    /\ \E i \in 1..MaxItems : reply[BatchTask][1].content.rows[i].score = None
    /\ \E t \in ScoreTasks : Replied(t, 502) /\ hist.posted[t] = 1

\* C18: a batch run over a valid dataset, once all its calls have ended,
\* returns a summary (status 200) that covers every item of the dataset,
\* whatever mix of successes and failures the calls gave.
C18_ValidRunReturnsSummary ==
    (Done(BatchTask) /\ ~HasInvalidItem(dataset)) =>
        /\ reply[BatchTask][1].status_code = 200
        /\ reply[BatchTask][1].content.n = Len(dataset)
        /\ Len(reply[BatchTask][1].content.rows) = Len(dataset)

\* C19: whenever no record is in progress the latency log has exactly
\* total_requests entries, last_latency_ms is null iff total_requests = 0
\* and is otherwise the last entry of the log; the log holds the latencies
\* of the record calls in the order they were made; no step changes or
\* removes an entry already in the log or lowers a counter; and a statement
\* of Metrics.snapshot changes nothing of the Metrics object.
IsPrefix(s, t) == Len(s) <= Len(t) /\ \A n \in 1..Len(s) : s[n] = t[n]

LogIsInOrder ==
    /\ Len(metrics.latencies_ms) = Len(hist.owners)
    /\ \A n \in 1..Len(hist.owners) : metrics.latencies_ms[n] = hist.owners[n].latency_ms

LogMatchesCounters ==
    NoRecordInProgress =>
        /\ Len(metrics.latencies_ms) = metrics.total_requests
        /\ metrics.last_latency_ms = None <=> metrics.total_requests = 0
        /\ metrics.total_requests > 0 =>
              metrics.last_latency_ms = Some(metrics.latencies_ms[metrics.total_requests])

MetricsOnlyGrow ==
    /\ IsPrefix(metrics.latencies_ms, metrics'.latencies_ms)
    /\ metrics'.total_requests >= metrics.total_requests
    /\ metrics'.success_requests >= metrics.success_requests
    /\ metrics'.failed_requests >= metrics.failed_requests
    /\ snap' # snap => metrics' = metrics

C19_LogGrowsInRecordOrder ==
    /\ [](LogIsInOrder /\ LogMatchesCounters)
    /\ [][MetricsOnlyGrow]_vars

\* C19 witness: three records with different latencies are complete, the
\* last latency is the last entry of the log and differs from the first,
\* and a snapshot taken meanwhile has returned
C19_Witness ==
    /\ NoRecordInProgress
    /\ metrics.total_requests = 3 /\ Len(metrics.latencies_ms) = 3
    /\ metrics.latencies_ms[1] # metrics.latencies_ms[3]
    /\ metrics.last_latency_ms = Some(metrics.latencies_ms[3])
    /\ snap.pc = SnapshotSteps /\ snap.total_requests = 2

====
